---- MODULE Spec2Model ----
(***************************************************************************)
(* Attendance backend (sc3099-be): the sessions table and its operations   *)
(* (model/session.ts, kept in src/src/model/error.ts), Course.delete, and  *)
(* the check-in admission pipeline of spec.md section 4.4; the users table *)
(* with registration, login and refresh (model/user.ts, controller/auth.ts), *)
(* the route guard authorize and the global error handler.                 *)
(*                                                                         *)
(* Time is counted in units of 15 minutes, so that the default check-in    *)
(* window of Session.create (15 minutes before, 30 minutes after the       *)
(* scheduled start) is start - 1 .. start + 2.  Scores, thresholds and     *)
(* weights are in hundredths; a risk score is in ten-thousandths.          *)
(***************************************************************************)
EXTENDS Integers, FiniteSets, Sequences, Bags, TLC

VARIABLES
    sessions,   \* the sessions table: session id -> row (ids of existing rows only)
    nextId,     \* number of session ids handed out by gen_random_uuid()
    courses,    \* the courses table: course id -> row
    checkins,   \* the checkins table: a bag of rows (a row may be stored more than once)
    now,        \* the database clock, NOW()
    hs,         \* per request handler: where it stands between two awaits
    last,       \* the response of the step that was taken last
    terminated, \* ids of sessions that were stored as closed or cancelled at some time
    decision,   \* one check-in attempt before the Decision Engine: its inputs, its status
    audit,      \* the audit log: the bag of the entries appended so far
    users,      \* the users table: user id -> row
    tokens,     \* the JWT payloads signed with the server's secret so far
    disabled    \* ids of the users that were deactivated at some time

vars ==
    <<sessions, nextId, courses, checkins, now, hs, last, terminated, decision, audit,
      users, tokens, disabled>>

-----------------------------------------------------------------------------
(* Bounds of the model *)

MaxSessions == 1
MaxCourses == 1
MaxTime == 3
NumHandlers == 2
NumStudents == 1

Handlers == 1..NumHandlers
\* the handler that serves the requests when they arrive one at a time
Sequential == {1}
SessionIds == 1..MaxSessions
CourseIds == 1..MaxCourses
Students == 1..NumStudents

-----------------------------------------------------------------------------
(* enums.ts *)

VALID_SESSION_STATUSES == {"scheduled", "active", "closed", "cancelled"}

\* a status value that is not a member of the enum
RequestedStatuses == VALID_SESSION_STATUSES \cup {"archived"}

UPDATABLE_FIELDS ==
    {"name", "description", "status", "scheduled_start", "scheduled_end",
     "checkin_opens_at", "checkin_closes_at", "venue_name", "venue_latitude",
     "venue_longitude", "geofence_radius_meters", "require_liveness_check",
     "require_face_match", "risk_threshold"}

\* the legal edges of spec.md section 4.1
LegalEdges ==
    {<<"scheduled", "active">>, <<"active", "closed">>,
     <<"scheduled", "cancelled">>, <<"active", "cancelled">>}

Terminal == {"closed", "cancelled"}

\* SQL NULL in a numeric column
Null == -1

\* data[f] when the request body carries f, else the default
Get(data, f, default) == IF f \in DOMAIN data THEN data[f] ELSE default

-----------------------------------------------------------------------------
(* Handler and response records *)

Idle ==
    [pc |-> "idle", id |-> 0, obs |-> "none", student |-> 0, req |-> [f \in {} |-> 0]]

NoResp ==
    [op |-> "none", id |-> 0, arg |-> "", res |-> "", pre |-> "none",
     obs |-> "none", student |-> 0, out |-> "none", n0 |-> 0, ids |-> {},
     body |-> [f \in {} |-> 0], code |-> 0, detail |-> "", issued |-> {},
     ran |-> FALSE]

Resp(op, id, arg, res, pre, obs) ==
    [NoResp EXCEPT !.op = op, !.id = id, !.arg = arg, !.res = res,
                   !.pre = pre, !.obs = obs]

StatusOf(sess, id) == IF id \in DOMAIN sess THEN sess[id].status ELSE "none"

\* the sessions that have been closed or cancelled at some time, sess included
EverTerminal(sess) == terminated \cup {id \in DOMAIN sess : sess[id].status \in Terminal}

-----------------------------------------------------------------------------
(* Session.findActive and the check-in gate *)

\* variant: the window test alone, whatever the status
canAcceptCheckInAnyStatus(s, t) ==
    /\ t >= s.checkin_opens_at
    /\ t <= s.checkin_closes_at

\* variant: the closing instant itself is outside the window
canAcceptCheckInExclusive(s, t) ==
    /\ s.status = "active"
    /\ t >= s.checkin_opens_at
    /\ t < s.checkin_closes_at

\* the WHERE clause of Session.findActive, for one row at time t
canAcceptCheckIn(s, t) ==
    /\ s.status = "active"
    /\ t >= s.checkin_opens_at
    /\ t <= s.checkin_closes_at

findActive(sess, t) == {id \in DOMAIN sess : canAcceptCheckIn(sess[id], t)}

-----------------------------------------------------------------------------
(* Session.create *)

\* 15 and 30 minutes, in units of 15 minutes
OpensBefore == 1
ClosesAfter == 2

defaultOpensAt(data) ==
    Get(data, "checkin_opens_at", data.scheduled_start - OpensBefore)

\* variant: the closing default taken from the opening bound in use
defaultClosesAtFromOpens(data) ==
    Get(data, "checkin_closes_at", defaultOpensAt(data) + OpensBefore + ClosesAfter)

defaultClosesAt(data) ==
    Get(data, "checkin_closes_at", data.scheduled_start + ClosesAfter)

\* variant: the window checked only when the caller gave both bounds
CreateErrorGivenWindowOnly(data, t) ==
    IF data.scheduled_start <= t
    THEN "scheduled_start must be in the future"
    ELSE IF data.scheduled_end <= data.scheduled_start
    THEN "scheduled_end must be after scheduled_start"
    ELSE IF /\ {"checkin_opens_at", "checkin_closes_at"} \subseteq DOMAIN data
            /\ data.checkin_closes_at <= data.checkin_opens_at
    THEN "checkin_closes_at must be after checkin_opens_at"
    ELSE ""

\* the message of the validation error Session.create throws at time t, "" if none
CreateError(data, t) ==
    IF data.scheduled_start <= t
    THEN "scheduled_start must be in the future"
    ELSE IF data.scheduled_end <= data.scheduled_start
    THEN "scheduled_end must be after scheduled_start"
    ELSE IF defaultClosesAt(data) <= defaultOpensAt(data)
    THEN "checkin_closes_at must be after checkin_opens_at"
    ELSE ""

\* variant: the status column taken from the request body when it carries one
NewSessionStatusFromBody(data, t) ==
    [course_id |-> data.course_id,
     instructor_id |-> Get(data, "instructor_id", Null),
     session_type |-> Get(data, "session_type", "lecture"),
     status |-> Get(data, "status", "scheduled"),
     scheduled_start |-> data.scheduled_start,
     scheduled_end |-> data.scheduled_end,
     checkin_opens_at |-> defaultOpensAt(data),
     checkin_closes_at |-> defaultClosesAt(data),
     geofence_radius_meters |-> Get(data, "geofence_radius_meters", Null),
     require_liveness_check |-> Get(data, "require_liveness_check", TRUE),
     risk_threshold |-> Get(data, "risk_threshold", Null),
     created_at |-> t]

\* the row the INSERT of Session.create stores at time t (of the columns of the
\* table, name, description, the venue, require_face_match and updated_at are
\* left out)
NewSession(data, t) ==
    [course_id |-> data.course_id,
     instructor_id |-> Get(data, "instructor_id", Null),
     session_type |-> Get(data, "session_type", "lecture"),
     status |-> "scheduled",
     scheduled_start |-> data.scheduled_start,
     scheduled_end |-> data.scheduled_end,
     checkin_opens_at |-> defaultOpensAt(data),
     checkin_closes_at |-> defaultClosesAt(data),
     geofence_radius_meters |-> Get(data, "geofence_radius_meters", Null),
     require_liveness_check |-> Get(data, "require_liveness_check", TRUE),
     risk_threshold |-> Get(data, "risk_threshold", Null),
     created_at |-> t]

-----------------------------------------------------------------------------
(* Session.update, Session.updateStatus, Session.delete, Course.delete: *)
(* the effect of each SQL statement on the table                         *)

\* variant: the SET list built by a loop over the keys of the request body
UpdateFieldsAnyKey(body) == DOMAIN body

\* the SET list Session.update builds from the request body
UpdateFields(body) == DOMAIN body \cap UPDATABLE_FIELDS

\* variant: the statement restricted to scheduled sessions,
\*   ... WHERE id = $n AND status = 'scheduled'
UpdateQueryScheduledOnly(sess, id, body) ==
    IF id \in DOMAIN sess /\ sess[id].status = "scheduled"
    THEN [table |-> [sess EXCEPT ![id] =
                        [f \in DOMAIN sess[id] |->
                            IF f \in UpdateFields(body) THEN body[f] ELSE sess[id][f]]],
          rows |-> 1]
    ELSE [table |-> sess, rows |-> 0]

\* UPDATE sessions SET <fields> WHERE id = $n RETURNING *
\* (the table after the statement, and the number of rows it returns)
UpdateQuery(sess, id, body) ==
    IF id \in DOMAIN sess
    THEN [table |-> [sess EXCEPT ![id] =
                        [f \in DOMAIN sess[id] |->
                            IF f \in UpdateFields(body) THEN body[f] ELSE sess[id][f]]],
          rows |-> 1]
    ELSE [table |-> sess, rows |-> 0]

\* variant: the statement guarded by the lifecycle edges,
\*   ... WHERE id = $2 AND (status, $1) is a legal edge
UpdateStatusQueryLegalOnly(sess, id, status) ==
    IF id \in DOMAIN sess /\ <<sess[id].status, status>> \in LegalEdges
    THEN [table |-> [sess EXCEPT ![id].status = status], rows |-> 1]
    ELSE [table |-> sess, rows |-> 0]

\* variant: the statement as a compare-and-swap that a concurrent writer of the
\* same target defeats,  ... WHERE id = $2 AND status <> $1
UpdateStatusQueryIfChanged(sess, id, status) ==
    IF id \in DOMAIN sess /\ sess[id].status # status
    THEN [table |-> [sess EXCEPT ![id].status = status], rows |-> 1]
    ELSE [table |-> sess, rows |-> 0]

\* UPDATE sessions SET status = $1 WHERE id = $2 RETURNING *
UpdateStatusQuery(sess, id, status) ==
    IF id \in DOMAIN sess
    THEN [table |-> [sess EXCEPT ![id].status = status], rows |-> 1]
    ELSE [table |-> sess, rows |-> 0]

\* DELETE FROM sessions WHERE id = $1
DeleteRows(sess, id) == [i \in DOMAIN sess \ {id} |-> sess[i]]

\* variant: the statement without its course filter
CancelCourseSessionsEveryCourse(sess, cid) ==
    [i \in DOMAIN sess |->
        IF sess[i].status \in {"scheduled", "active"}
        THEN [sess[i] EXCEPT !.status = "cancelled"]
        ELSE sess[i]]

\* variant: the statement without its status filter
CancelCourseSessionsAnyStatus(sess, cid) ==
    [i \in DOMAIN sess |->
        IF sess[i].course_id = cid
        THEN [sess[i] EXCEPT !.status = "cancelled"]
        ELSE sess[i]]

\* UPDATE sessions SET status = 'cancelled'
\*   WHERE course_id = $1 AND status IN ('scheduled', 'active')
CancelCourseSessions(sess, cid) ==
    [i \in DOMAIN sess |->
        IF sess[i].course_id = cid /\ sess[i].status \in {"scheduled", "active"}
        THEN [sess[i] EXCEPT !.status = "cancelled"]
        ELSE sess[i]]

-----------------------------------------------------------------------------
(* Geofence Evaluator, Risk Signal Combiner, Check-in Decision Engine *)

WEIGHTS ==
    [liveness |-> 25, face_match |-> 25, device |-> 20, network |-> 15,
     geolocation |-> 15]

\* the score a missing signal is given
NeutralScore == 50
\* the pass line of the liveness check
LivenessThreshold == 60
\* the risk threshold of a session that stores none
DefaultRiskThreshold == 50

\* variant: a missing signal counted as a failed one
ScoreMissingAsZero(signals, k) == IF k \in DOMAIN signals THEN signals[k] ELSE 0

Score(signals, k) == IF k \in DOMAIN signals THEN signals[k] ELSE NeutralScore

Clamp(x, lo, hi) == IF x < lo THEN lo ELSE IF x > hi THEN hi ELSE x

\* risk_score in ten-thousandths: the sum of weight x (1 - score), clamped to [0,1]
RiskScore(signals) ==
    Clamp(WEIGHTS.liveness * (100 - Score(signals, "liveness"))
          + WEIGHTS.face_match * (100 - Score(signals, "face_match"))
          + WEIGHTS.device * (100 - Score(signals, "device"))
          + WEIGHTS.network * (100 - Score(signals, "network"))
          + WEIGHTS.geolocation * (100 - Score(signals, "geolocation")),
          0, 10000)

\* variant: twice the radius itself counts as severely out of bounds
severelyOutOfBoundsFromTwice(d, r) == d >= 2 * r

severelyOutOfBounds(d, r) == d > 2 * r

withinGeofence(d, r) == d <= r

\* liveness explicitly failed: required by the session, measured, below its pass line
LivenessFailed(s, signals) ==
    /\ s.require_liveness_check
    /\ "liveness" \in DOMAIN signals
    /\ signals.liveness < LivenessThreshold

RiskThreshold(s) ==
    IF s.risk_threshold = Null THEN DefaultRiskThreshold ELSE s.risk_threshold

\* a session without a geofence puts no point out of bounds
OutOfBounds(s, d) ==
    s.geofence_radius_meters # Null /\ severelyOutOfBounds(d, s.geofence_radius_meters)

\* variant: the threshold comparison ahead of the critical signals
DecideScoreFirst(s, signals, d) ==
    IF RiskScore(signals) < 100 * RiskThreshold(s) THEN "approved"
    ELSE IF LivenessFailed(s, signals) \/ OutOfBounds(s, d) THEN "rejected"
    ELSE "flagged"

\* variant: a risk score equal to the threshold is approved
DecideStrict(s, signals, d) ==
    IF LivenessFailed(s, signals) THEN "rejected"
    ELSE IF OutOfBounds(s, d) THEN "rejected"
    ELSE IF RiskScore(signals) > 100 * RiskThreshold(s) THEN "flagged"
    ELSE "approved"

\* the status the Decision Engine gives a pending CheckIn
Decide(s, signals, d) ==
    IF LivenessFailed(s, signals) THEN "rejected"
    ELSE IF OutOfBounds(s, d) THEN "rejected"
    ELSE IF RiskScore(signals) >= 100 * RiskThreshold(s) THEN "flagged"
    ELSE "approved"

NoDecision ==
    [session |-> [require_liveness_check |-> TRUE, geofence_radius_meters |-> Null,
                  risk_threshold |-> Null],
     signals |-> [k \in {} |-> 0], distance |-> 0, status |-> "none",
     risk_score |-> Null, within_geofence |-> FALSE, severely_out_of_bounds |-> FALSE]

-----------------------------------------------------------------------------
(* Request inputs *)

\* bodies of POST /sessions/
CreateInputs ==
    {[course_id |-> 1, scheduled_start |-> 2, scheduled_end |-> 3],
     [course_id |-> 1, scheduled_start |-> 2, scheduled_end |-> 3,
      checkin_closes_at |-> 2],
     [course_id |-> 1, scheduled_start |-> 2, scheduled_end |-> 2],
     [course_id |-> 1, scheduled_start |-> 2, scheduled_end |-> 3,
      checkin_opens_at |-> 2, checkin_closes_at |-> 2]}

\* bodies of PATCH /sessions/{id}
UpdateInputs ==
    {[status |-> st] : st \in VALID_SESSION_STATUSES}
        \cup {[course_id |-> 1], [venue_name |-> "LT1"]}

-----------------------------------------------------------------------------
(* Initial state: empty tables, every handler idle *)

Init ==
    /\ sessions = [i \in {} |-> 0]
    /\ nextId = 0
    /\ courses = [i \in {} |-> 0]
    /\ checkins = EmptyBag
    /\ now = 0
    /\ hs = [h \in Handlers |-> Idle]
    /\ last = NoResp
    /\ terminated = {}
    /\ decision = NoDecision
    /\ audit = EmptyBag
    /\ users = [i \in {} |-> 0]
    /\ tokens = {}
    /\ disabled = {}

\* every write of the sessions table is followed in terminated
Track == terminated' = EverTerminal(sessions')

-----------------------------------------------------------------------------
(* Actions: one per handler, or per SQL statement of a handler that awaits *)
(* more than one                                                          *)

\* the clock advances
Tick ==
    /\ now < MaxTime
    /\ now' = now + 1
    /\ last' = NoResp
    /\ UNCHANGED <<disabled, users, tokens, decision, audit, sessions, nextId, courses,
                   checkins, hs, terminated>>

\* POST /courses/ -> Course.create, while the table holds fewer than max rows
CourseCreateUpTo(h, max) ==
    /\ hs[h].pc = "idle"
    /\ Cardinality(DOMAIN courses) < max
    /\ LET cid == Cardinality(DOMAIN courses) + 1
       IN courses' = [c \in DOMAIN courses \cup {cid} |->
                        IF c = cid THEN [is_active |-> TRUE] ELSE courses[c]]
    /\ last' = NoResp
    /\ UNCHANGED <<disabled, users, tokens, decision, audit, sessions, nextId,
                   checkins, now, hs, terminated>>

CourseCreate(h) == CourseCreateUpTo(h, MaxCourses)

\* POST /sessions/ -> Session.create, while fewer than max ids were handed out
SessionCreateUpTo(h, data, max) ==
    /\ hs[h].pc = "idle"
    /\ nextId < max
    /\ LET err == CreateError(data, now)
           id == nextId + 1
       IN IF err # ""
          THEN /\ last' = [Resp("create", 0, "", err, "none", "none")
                                EXCEPT !.body = data]
               /\ UNCHANGED <<sessions, nextId>>
          ELSE /\ sessions' = [i \in DOMAIN sessions \cup {id} |->
                                 IF i = id THEN NewSession(data, now) ELSE sessions[i]]
               /\ nextId' = id
               /\ last' = [Resp("create", id, "", "ok", "none", "none")
                                EXCEPT !.body = data]
    /\ Track
    /\ UNCHANGED <<disabled, users, tokens, decision, audit, courses, checkins, now, hs>>

SessionCreate(h, data) == SessionCreateUpTo(h, data, MaxSessions)

\* PATCH /sessions/{id} -> Session.update
SessionUpdate(h, id, body) ==
    /\ hs[h].pc = "idle"
    /\ LET pre == StatusOf(sessions, id)
           arg == Get(body, "status", "")
       IN IF UpdateFields(body) = {}
          THEN /\ last' = [Resp("update", id, arg, "No valid fields to update", pre,
                                 "none") EXCEPT !.body = body]
               /\ UNCHANGED sessions
          ELSE LET q == UpdateQuery(sessions, id, body)
               IN /\ sessions' = q.table
                  /\ last' = [Resp("update", id, arg,
                                   IF q.rows > 0 THEN "ok" ELSE "not found",
                                   pre, "none") EXCEPT !.body = body]
    /\ Track
    /\ UNCHANGED <<disabled, users, tokens, decision, audit, nextId, courses, checkins,
                   now, hs>>

\* GET /sessions/{id} -> Session.findById: the client reads the status it will act on
Observe(h, id) ==
    /\ hs[h].pc = "idle"
    /\ id \in DOMAIN sessions
    /\ hs' = [hs EXCEPT ![h] = [Idle EXCEPT !.pc = "observed", !.id = id,
                                            !.obs = sessions[id].status]]
    /\ last' = NoResp
    /\ UNCHANGED <<disabled, users, tokens, decision, audit, sessions, nextId, courses,
                   checkins, now, terminated>>

\* PATCH /admin/sessions/{id}/status -> Session.updateStatus
UpdateStatus(h, id, status) ==
    /\ \/ hs[h].pc = "idle"
       \/ hs[h].pc = "observed" /\ hs[h].id = id
    /\ LET pre == StatusOf(sessions, id)
           obs == hs[h].obs
       IN IF status \notin VALID_SESSION_STATUSES
          THEN /\ last' = Resp("updateStatus", id, status, "Invalid status", pre, obs)
               /\ UNCHANGED sessions
          ELSE LET q == UpdateStatusQuery(sessions, id, status)
               IN /\ sessions' = q.table
                  /\ last' = Resp("updateStatus", id, status,
                                  IF q.rows > 0 THEN "ok" ELSE "not found",
                                  pre, obs)
    /\ hs' = [hs EXCEPT ![h] = Idle]
    /\ Track
    /\ UNCHANGED <<disabled, users, tokens, decision, audit, nextId, courses, checkins,
                   now>>

\* DELETE /sessions/{id} -> Session.delete, first statement: SELECT status
DeleteCheck(h, id) ==
    /\ hs[h].pc = "idle"
    /\ LET pre == StatusOf(sessions, id)
       IN IF pre = "none"
          THEN /\ last' = Resp("delete", id, "", "Session not found", pre, "none")
               /\ UNCHANGED hs
          ELSE IF pre # "scheduled"
          THEN /\ last' = Resp("delete", id, "", "Only scheduled sessions can be deleted",
                               pre, "none")
               /\ UNCHANGED hs
          ELSE /\ last' = NoResp
               /\ hs' = [hs EXCEPT ![h] = [Idle EXCEPT !.pc = "delete_checked",
                                                       !.id = id, !.obs = pre]]
    /\ UNCHANGED <<disabled, users, tokens, decision, audit, sessions, nextId, courses,
                   checkins, now, terminated>>

\* Session.delete, second statement: DELETE FROM sessions
DeleteExec(h) ==
    /\ hs[h].pc = "delete_checked"
    /\ sessions' = DeleteRows(sessions, hs[h].id)
    /\ last' = Resp("delete", hs[h].id, "", "ok", StatusOf(sessions, hs[h].id), hs[h].obs)
    /\ hs' = [hs EXCEPT ![h] = Idle]
    /\ Track
    /\ UNCHANGED <<disabled, users, tokens, decision, audit, nextId, courses, checkins,
                   now>>

\* DELETE /courses/{id} -> Course.delete, first statement: UPDATE courses
CourseDeleteMark(h, cid) ==
    /\ hs[h].pc = "idle"
    /\ IF cid \in DOMAIN courses
       THEN /\ courses' = [courses EXCEPT ![cid].is_active = FALSE]
            /\ hs' = [hs EXCEPT ![h] = [Idle EXCEPT !.pc = "course_marked", !.id = cid]]
            /\ last' = NoResp
       ELSE /\ last' = Resp("courseDelete", cid, "", "false", "none", "none")
            /\ UNCHANGED <<courses, hs>>
    /\ UNCHANGED <<disabled, users, tokens, decision, audit, sessions, nextId,
                   checkins, now, terminated>>

\* Course.delete, second statement: UPDATE sessions SET status = 'cancelled'
CourseDeleteCancel(h) ==
    /\ hs[h].pc = "course_marked"
    /\ sessions' = CancelCourseSessions(sessions, hs[h].id)
    /\ last' = Resp("courseDelete", hs[h].id, "", "true", "none", "none")
    /\ hs' = [hs EXCEPT ![h] = Idle]
    /\ Track
    /\ UNCHANGED <<disabled, users, tokens, decision, audit, nextId, courses, checkins,
                   now>>

\* GET /sessions/active -> Session.findActive
FindActive(h) ==
    /\ hs[h].pc = "idle"
    /\ last' = [Resp("findActive", 0, "", "ok", "none", "none")
                    EXCEPT !.ids = findActive(sessions, now)]
    /\ UNCHANGED <<disabled, users, tokens, decision, audit, sessions, nextId, courses,
                   checkins, now, hs, terminated>>

-----------------------------------------------------------------------------
(* The session lifecycle: every session and course operation, the requests *)
(* served one after the other                                              *)

Next ==
    \/ Tick
    \/ \E h \in Sequential : CourseCreate(h)
    \/ \E h \in Sequential, data \in CreateInputs : SessionCreate(h, data)
    \/ \E h \in Sequential, id \in SessionIds, body \in UpdateInputs :
            SessionUpdate(h, id, body)
    \/ \E h \in Sequential, id \in SessionIds : Observe(h, id)
    \/ \E h \in Sequential, id \in SessionIds, st \in RequestedStatuses :
            UpdateStatus(h, id, st)
    \/ \E h \in Sequential, id \in SessionIds : DeleteCheck(h, id)
    \/ \E h \in Sequential : DeleteExec(h)
    \/ \E h \in Sequential, cid \in CourseIds : CourseDeleteMark(h, cid)
    \/ \E h \in Sequential : CourseDeleteCancel(h)
    \/ \E h \in Sequential : FindActive(h)

Spec == Init /\ [][Next]_vars

-----------------------------------------------------------------------------
(* POST /checkins/: the admission pipeline of spec.md section 4.4 *)

\* the number of CheckIn rows of one (session, student) pair
RowsOf(rows, sid, student) ==
    BagCardinality([r \in {x \in BagToSet(rows) :
                              x.session_id = sid /\ x.student_id = student}
                        |-> rows[r]])

\* a CheckIn row as it is created: not appealed, not reviewed
NewCheckin(sid, student, status) ==
    [session_id |-> sid, student_id |-> student, status |-> status,
     checked_in_at |-> now, appealed_at |-> Null, reviewed_at |-> Null,
     reviewed_by |-> Null, review_notes |-> ""]

\* the Audit Recorder: one entry appended to the log
AuditAppend(log, action, resource_type, resource_id) ==
    log (+) SetToBag({[action |-> action, resource_type |-> resource_type,
                       resource_id |-> resource_id]})

\* variant: the insert without the unique constraint
InsertCheckinUnconstrained(rows, sid, student, status) ==
    [table |-> rows (+) SetToBag({NewCheckin(sid, student, status)}),
     inserted |-> TRUE]

\* INSERT INTO checkins under the unique constraint on (session_id, student_id):
\* the table after the statement, and whether the constraint let the row in
InsertCheckin(rows, sid, student, status) ==
    IF RowsOf(rows, sid, student) > 0
    THEN [table |-> rows, inserted |-> FALSE]
    ELSE [table |-> rows (+) SetToBag({NewCheckin(sid, student, status)}),
          inserted |-> TRUE]

\* variant: a pending row written ahead of the verification call and left behind
OnUnavailableKeepPending(rows, sid, student) ==
    rows (+) SetToBag({NewCheckin(sid, student, "pending")})

\* the checkins table after a verification call that timed out or was unavailable:
\* nothing is written
OnUnavailable(rows, sid, student) == rows

\* what the Verification Gateway and the Geofence Evaluator return for an attempt:
\* the gateway unreachable, a clean attempt, a risky one
VerifyCases ==
    {[available |-> FALSE, signals |-> [k \in {} |-> 0], distance |-> 0],
     [available |-> TRUE, distance |-> 50,
      signals |-> [liveness |-> 90, face_match |-> 90, device |-> 90,
                   network |-> 90, geolocation |-> 90]],
     [available |-> TRUE, distance |-> 50,
      signals |-> [liveness |-> 60, face_match |-> 20, device |-> 0,
                   network |-> 60, geolocation |-> 60]]}

\* bodies of POST /sessions/ for the sessions students check in to
CheckinSessionInputs ==
    {[course_id |-> 1, scheduled_start |-> 1, scheduled_end |-> 2,
      geofence_radius_meters |-> 100, risk_threshold |-> 50]}

GateSessionInputs ==
    {[course_id |-> 1, scheduled_start |-> 2, scheduled_end |-> 3,
      checkin_closes_at |-> 2, geofence_radius_meters |-> 100,
      risk_threshold |-> 50]}

\* the students who check in and appeal
Appellants == {1}

\* the errors a check-in request fails with
CheckinFailures ==
    {"SessionNotOpen", "AlreadyCheckedIn", "VerificationServiceUnavailable"}

\* stage: "gate" for steps 1 and 2, "insert" for steps 3 to 5; n0: the CheckIn rows
\* of the pair before the step
CheckinResp(stage, id, student, res, pre, out, n0) ==
    [Resp("checkin", id, stage, res, pre, "none")
        EXCEPT !.student = student, !.out = out, !.n0 = n0]

\* steps 1 and 2: the session gate, then the pre-flight look for an existing CheckIn
CheckinGate(h, sid, student) ==
    /\ hs[h].pc = "idle"
    /\ LET pre == StatusOf(sessions, sid)
           n0 == RowsOf(checkins, sid, student)
       IN IF pre = "none"
          THEN /\ last' = CheckinResp("gate", sid, student, "NotFound", pre, "none", n0)
               /\ UNCHANGED hs
          ELSE IF ~canAcceptCheckIn(sessions[sid], now)
          THEN /\ last' = CheckinResp("gate", sid, student, "SessionNotOpen", pre, "none", n0)
               /\ UNCHANGED hs
          ELSE IF n0 > 0
          THEN /\ last' = CheckinResp("gate", sid, student, "AlreadyCheckedIn", pre, "none", n0)
               /\ UNCHANGED hs
          ELSE /\ last' = NoResp
               /\ hs' = [hs EXCEPT ![h] = [Idle EXCEPT !.pc = "checkin_admitted",
                                                       !.id = sid, !.obs = pre,
                                                       !.student = student]]
    /\ UNCHANGED <<disabled, users, tokens, decision, audit, sessions, nextId, courses,
                   checkins, now, terminated>>

\* steps 3 to 5: verification, the decision, and the one write of the CheckIn row
CheckinComplete(h, v) ==
    /\ hs[h].pc = "checkin_admitted"
    /\ LET sid == hs[h].id
           student == hs[h].student
           n0 == RowsOf(checkins, sid, student)
       IN IF ~v.available
          THEN /\ checkins' = OnUnavailable(checkins, sid, student)
               /\ UNCHANGED audit
               /\ last' = CheckinResp("insert", sid, student,
                                      "VerificationServiceUnavailable",
                                      hs[h].obs, "none", n0)
          ELSE IF sid \notin DOMAIN sessions
          THEN /\ last' = CheckinResp("insert", sid, student, "NotFound", hs[h].obs,
                                      "none", n0)
               /\ UNCHANGED <<checkins, audit>>
          ELSE LET status == Decide(sessions[sid], v.signals, v.distance)
                   q == InsertCheckin(checkins, sid, student, status)
               IN /\ checkins' = q.table
                  /\ audit' = IF q.inserted
                              THEN AuditAppend(audit, "checkin_" \o status, "checkin",
                                               <<sid, student>>)
                              ELSE audit
                  /\ last' = IF q.inserted
                             THEN CheckinResp("insert", sid, student, "created",
                                              hs[h].obs, status, n0)
                             ELSE CheckinResp("insert", sid, student,
                                              "AlreadyCheckedIn", hs[h].obs, "none", n0)
    /\ hs' = [hs EXCEPT ![h] = Idle]
    /\ UNCHANGED <<disabled, users, tokens, decision, sessions, nextId, courses, now,
                   terminated>>

\* concurrent check-in requests against sessions that are opened and closed
NextCheckin ==
    \/ \E h \in Handlers, data \in CheckinSessionInputs : SessionCreate(h, data)
    \/ \E h \in Handlers, id \in SessionIds, st \in {"active", "closed"} :
            UpdateStatus(h, id, st)
    \/ \E h \in Handlers, id \in SessionIds, st \in Students : CheckinGate(h, id, st)
    \/ \E h \in Handlers, v \in VerifyCases : CheckinComplete(h, v)

SpecCheckin == Init /\ [][NextCheckin]_vars

\* check-in requests, one at a time, against sessions that open, close and reopen
\* while the clock runs through their check-in window
NextGate ==
    \/ Tick
    \/ \E h \in Sequential, data \in GateSessionInputs : SessionCreate(h, data)
    \/ \E h \in Sequential, id \in SessionIds, st \in VALID_SESSION_STATUSES :
            UpdateStatus(h, id, st)
    \/ \E h \in Sequential : FindActive(h)
    \/ \E h \in Sequential, id \in SessionIds, st \in Appellants : CheckinGate(h, id, st)
    \/ \E h \in Sequential, v \in VerifyCases : CheckinComplete(h, v)

SpecGate == Init /\ [][NextGate]_vars

-----------------------------------------------------------------------------
(* Concurrent requests on the sessions table *)

RaceSessionInputs ==
    {[course_id |-> 1, scheduled_start |-> 2, scheduled_end |-> 3]}

NextRace ==
    \/ \E h \in Handlers, data \in RaceSessionInputs : SessionCreate(h, data)
    \/ \E h \in Handlers, id \in SessionIds : Observe(h, id)
    \/ \E h \in Handlers, id \in SessionIds, st \in VALID_SESSION_STATUSES :
            UpdateStatus(h, id, st)
    \/ \E h \in Handlers, id \in SessionIds : DeleteCheck(h, id)
    \/ \E h \in Handlers : DeleteExec(h)

SpecRace == Init /\ [][NextRace]_vars

-----------------------------------------------------------------------------
(* The Decision Engine alone: one pending CheckIn, resolved once *)

Missing == Null

\* a sparse signal map: the signals whose score is given
MkSignals(l, f, d, n, g) ==
    LET full == [liveness |-> l, face_match |-> f, device |-> d, network |-> n,
                 geolocation |-> g]
    IN [k \in {x \in DOMAIN full : full[x] # Missing} |-> full[k]]

SignalMaps ==
    {MkSignals(l, f, d, n, g) :
        l \in {Missing, 0, 59, 60, 90, 100}, f \in {Missing, 0, 20, 90, 100},
        d \in {0, 90, 100}, n \in {0, 60, 90, 100}, g \in {Missing, 0, 60, 90, 100}}

DecisionInputs ==
    [session : [require_liveness_check : BOOLEAN,
                geofence_radius_meters : {Null, 100, 125},
                risk_threshold : {Null, 0, 10, 50, 62, 100}],
     signals : SignalMaps,
     distance : {0, 100, 200, 201, 250},
     status : {"pending"},
     risk_score : {Null},
     within_geofence : {FALSE},
     severely_out_of_bounds : {FALSE}]

InitDecide ==
    /\ sessions = [i \in {} |-> 0]
    /\ nextId = 0
    /\ courses = [i \in {} |-> 0]
    /\ checkins = EmptyBag
    /\ now = 0
    /\ hs = [h \in Handlers |-> Idle]
    /\ last = NoResp
    /\ terminated = {}
    /\ decision \in DecisionInputs
    /\ audit = EmptyBag
    /\ users = [i \in {} |-> 0]
    /\ tokens = {}
    /\ disabled = {}

\* the Geofence Evaluator, the Risk Signal Combiner and steps 4 and 5 of the
\* pipeline on the pending CheckIn
Resolve ==
    /\ decision.status = "pending"
    /\ LET r == decision.session.geofence_radius_meters
       IN decision' = [decision EXCEPT
                        !.risk_score = RiskScore(decision.signals),
                        !.within_geofence = r # Null /\ withinGeofence(decision.distance, r),
                        !.severely_out_of_bounds =
                            r # Null /\ severelyOutOfBounds(decision.distance, r),
                        !.status = Decide(decision.session, decision.signals,
                                          decision.distance)]
    /\ last' = [NoResp EXCEPT !.op = "decide"]
    /\ UNCHANGED <<disabled, users, tokens, audit, sessions, nextId, courses, checkins,
                   now, hs, terminated>>

NextDecide == Resolve

SpecDecide == InitDecide /\ [][NextDecide]_vars

-----------------------------------------------------------------------------
(* Appeal & Review Workflow: POST /checkins/{id}/appeal and .../review, for *)
(* requests that passed authorization (the owning student, a course        *)
(* instructor or TA)                                                        *)

\* the appeal window: 7 days, in quarter hours
AppealWindow == 672

Reviewers == {1}

ReviewOutcomes == {"approved", "rejected", "flagged"}

ReviewNotes == {"GPS issue confirmed"}

HasCheckin(rows, sid, student) == RowsOf(rows, sid, student) > 0

\* the CheckIn of a pair
CheckinOf(rows, sid, student) ==
    CHOOSE r \in BagToSet(rows) : r.session_id = sid /\ r.student_id = student

\* UPDATE checkins SET ... WHERE id: the row r replaced by the row w
ReplaceCheckin(rows, r, w) == (rows (-) SetToBag({r})) (+) SetToBag({w})

\* the response to an appeal or a review: the status before, the status stored
WorkflowResp(op, sid, student, res, pre, out) ==
    [Resp(op, sid, "", res, pre, "none") EXCEPT !.student = student, !.out = out]

\* variant: the appeal check that looks at the status only, not at appealed_at
AppealErrorStatusOnly(r, t) ==
    IF r.reviewed_at # Null THEN "InvalidTransition"
    ELSE IF r.status \notin {"rejected", "flagged"} THEN "InvalidTransition"
    ELSE IF t - r.checked_in_at > AppealWindow THEN "AppealWindowExpired"
    ELSE ""

\* variant: the appeal check that lets a reviewed CheckIn through
AppealErrorReviewedAllowed(r, t) ==
    IF r.appealed_at # Null THEN "AlreadyAppealed"
    ELSE IF r.status \notin {"rejected", "flagged"} THEN "InvalidTransition"
    ELSE IF t - r.checked_in_at > AppealWindow THEN "AppealWindowExpired"
    ELSE ""

\* why an appeal of the CheckIn r at time t is turned down, "" when it is not
AppealError(r, t) ==
    IF r.appealed_at # Null THEN "AlreadyAppealed"
    ELSE IF r.reviewed_at # Null THEN "InvalidTransition"
    ELSE IF r.status \notin {"rejected", "flagged"} THEN "InvalidTransition"
    ELSE IF t - r.checked_in_at > AppealWindow THEN "AppealWindowExpired"
    ELSE ""

\* why a review of the CheckIn r with the given outcome is turned down
ReviewError(r, outcome) ==
    IF outcome \notin {"approved", "rejected"} THEN "ValidationError"
    ELSE IF r.status \notin {"flagged", "appealed"} THEN "InvalidTransition"
    ELSE ""

\* POST /checkins/{id}/appeal
Appeal(h, sid, student) ==
    /\ hs[h].pc = "idle"
    /\ IF ~HasCheckin(checkins, sid, student)
       THEN /\ last' = WorkflowResp("appeal", sid, student, "NotFound", "none", "none")
            /\ UNCHANGED <<checkins, audit>>
       ELSE LET r == CheckinOf(checkins, sid, student)
                err == AppealError(r, now)
            IN IF err # ""
               THEN /\ last' = WorkflowResp("appeal", sid, student, err, r.status,
                                           "none")
                    /\ UNCHANGED <<checkins, audit>>
               ELSE /\ checkins' = ReplaceCheckin(checkins, r,
                                        [r EXCEPT !.status = "appealed",
                                                  !.appealed_at = now])
                    /\ audit' = AuditAppend(audit, "checkin_appealed", "checkin",
                                            <<sid, student>>)
                    /\ last' = WorkflowResp("appeal", sid, student, "ok", r.status,
                                           "appealed")
    /\ UNCHANGED <<disabled, users, tokens, decision, sessions, nextId, courses, now,
                   hs, terminated>>

\* POST /checkins/{id}/review
Review(h, sid, student, reviewer, outcome, notes) ==
    /\ hs[h].pc = "idle"
    /\ IF ~HasCheckin(checkins, sid, student)
       THEN /\ last' = WorkflowResp("review", sid, student, "NotFound", "none", "none")
            /\ UNCHANGED <<checkins, audit>>
       ELSE LET r == CheckinOf(checkins, sid, student)
                err == ReviewError(r, outcome)
            IN IF err # ""
               THEN /\ last' = WorkflowResp("review", sid, student, err, r.status,
                                           "none")
                    /\ UNCHANGED <<checkins, audit>>
               ELSE /\ checkins' = ReplaceCheckin(checkins, r,
                                        [r EXCEPT !.status = outcome,
                                                  !.reviewed_by = reviewer,
                                                  !.reviewed_at = now,
                                                  !.review_notes = notes])
                    /\ audit' = AuditAppend(audit, "checkin_reviewed", "checkin",
                                            <<sid, student>>)
                    /\ last' = WorkflowResp("review", sid, student, "ok", r.status,
                                           outcome)
    /\ UNCHANGED <<disabled, users, tokens, decision, sessions, nextId, courses, now,
                   hs, terminated>>

\* days pass: the appeal window, to its last instant or beyond it
Elapse(d) ==
    /\ now <= MaxTime
    /\ now' = now + d
    /\ last' = NoResp
    /\ UNCHANGED <<disabled, users, tokens, decision, audit, sessions, nextId, courses,
                   checkins, hs, terminated>>

\* verification results that end approved, flagged and rejected
WorkflowVerifyCases ==
    {v \in VerifyCases : v.available}
        \cup {[available |-> TRUE, distance |-> 250,
               signals |-> [liveness |-> 90, face_match |-> 90, device |-> 90,
                            network |-> 90, geolocation |-> 90]]}

\* check-ins decided, then appealed and reviewed, the requests served one at a time
NextWorkflow ==
    \/ \E d \in {AppealWindow, AppealWindow + 1} : Elapse(d)
    \/ \E h \in Sequential, data \in CheckinSessionInputs : SessionCreate(h, data)
    \/ \E h \in Sequential, id \in SessionIds : UpdateStatus(h, id, "active")
    \/ \E h \in Sequential, id \in SessionIds, st \in Appellants : CheckinGate(h, id, st)
    \/ \E h \in Sequential, v \in WorkflowVerifyCases : CheckinComplete(h, v)
    \/ \E h \in Sequential, id \in SessionIds, st \in Appellants : Appeal(h, id, st)
    \/ \E h \in Sequential, id \in SessionIds, st \in Appellants, rv \in Reviewers,
          o \in ReviewOutcomes, n \in ReviewNotes : Review(h, id, st, rv, o, n)

SpecWorkflow == Init /\ [][NextWorkflow]_vars

-----------------------------------------------------------------------------
(* Creating and editing sessions with arbitrary dates and thresholds *)

\* bodies of POST /sessions/: the window given, half given or left out; dates in
\* and out of order; risk thresholds in and out of [0,1]
EditCreateInputs ==
    {[course_id |-> 1, scheduled_start |-> 2, scheduled_end |-> 3],
     [course_id |-> 1, scheduled_start |-> 2, scheduled_end |-> 3,
      checkin_opens_at |-> 0],
     [course_id |-> 1, scheduled_start |-> 2, scheduled_end |-> 3,
      checkin_closes_at |-> 3],
     [course_id |-> 1, scheduled_start |-> 2, scheduled_end |-> 3,
      checkin_opens_at |-> 2, checkin_closes_at |-> 3, risk_threshold |-> 50],
     [course_id |-> 1, scheduled_start |-> 2, scheduled_end |-> 2],
     [course_id |-> 1, scheduled_start |-> 2, scheduled_end |-> 1],
     [course_id |-> 1, scheduled_start |-> 0, scheduled_end |-> 3],
     [course_id |-> 1, scheduled_start |-> 2, scheduled_end |-> 3,
      checkin_opens_at |-> 2, checkin_closes_at |-> 2],
     [course_id |-> 1, scheduled_start |-> 2, scheduled_end |-> 3,
      checkin_opens_at |-> 4],
     [course_id |-> 1, scheduled_start |-> 2, scheduled_end |-> 3,
      checkin_closes_at |-> 1],
     [course_id |-> 1, scheduled_start |-> 2, scheduled_end |-> 3,
      risk_threshold |-> 150]}

\* bodies of PATCH /sessions/{id}
EditUpdateInputs ==
    {[checkin_closes_at |-> 0], [checkin_closes_at |-> 5], [scheduled_end |-> 1],
     [risk_threshold |-> 150]}

NextEdit ==
    \/ \E h \in Sequential, data \in EditCreateInputs : SessionCreate(h, data)
    \/ \E h \in Sequential, id \in SessionIds, body \in EditUpdateInputs :
            SessionUpdate(h, id, body)
    \/ \E h \in Sequential, id \in SessionIds, st \in {"active", "closed"} :
            UpdateStatus(h, id, st)

SpecEdit == Init /\ [][NextEdit]_vars

-----------------------------------------------------------------------------
(* Two courses with their sessions, the requests served one at a time: what *)
(* Session.create stores, what Session.update and Course.delete change     *)

\* the ids of the courses and of the sessions of this scenario
FrameCourseIds == {1, 2}
FrameSessionIds == {1, 2}

\* bodies of POST /sessions/, some carrying a status
FrameCreateInputs ==
    {[course_id |-> 2, scheduled_start |-> 2, scheduled_end |-> 3]}
    \cup {[course_id |-> 1, instructor_id |-> 5, session_type |-> "lab",
           scheduled_start |-> 2, scheduled_end |-> 3, status |-> st] :
            st \in {"active", "closed", "cancelled"}}

\* bodies of PATCH /sessions/{id}: keys outside of the allowlist only, and keys of
\* both kinds
FrameUpdateInputs ==
    {[course_id |-> 2, instructor_id |-> 7, session_type |-> "exam", created_at |-> 9,
      id |-> 9],
     [course_id |-> 2, instructor_id |-> 7, session_type |-> "exam", created_at |-> 9,
      risk_threshold |-> 40]}

NextFrame ==
    \E h \in Sequential :
        \/ CourseCreateUpTo(h, Cardinality(FrameCourseIds))
        \/ \E data \in FrameCreateInputs :
                SessionCreateUpTo(h, data, Cardinality(FrameSessionIds))
        \/ \E id \in FrameSessionIds \cup {3}, body \in FrameUpdateInputs :
                SessionUpdate(h, id, body)
        \/ \E id \in FrameSessionIds, st \in {"active", "closed"} :
                UpdateStatus(h, id, st)
        \/ \E cid \in FrameCourseIds \cup {3} : CourseDeleteMark(h, cid)
        \/ CourseDeleteCancel(h)

SpecFrame == Init /\ [][NextFrame]_vars

-----------------------------------------------------------------------------
(* model/user.ts (src/unnamed/part_014): the users table, registration and  *)
(* login; controller/auth.ts: the routes and the tokens they sign           *)

\* the emails and the passwords of the requests; a password is its text and what
\* the regular expression of isStrongPassword looks at
Emails == {"a@e.ntu.edu.sg", "b@e.ntu.edu.sg"}

StrongPassword ==
    [text |-> "Passw0rd!", upper |-> TRUE, lower |-> TRUE, digit |-> TRUE,
     special |-> TRUE, length |-> 9]

OtherPassword ==
    [text |-> "Secur3#pass", upper |-> TRUE, lower |-> TRUE, digit |-> TRUE,
     special |-> TRUE, length |-> 11]

\* the password of the example request of the API specification
WeakPassword ==
    [text |-> "securepass123", upper |-> FALSE, lower |-> TRUE, digit |-> TRUE,
     special |-> FALSE, length |-> 13]

\* helpers/regex.ts
isStrongPassword(password) ==
    /\ password.upper
    /\ password.lower
    /\ password.digit
    /\ password.special
    /\ password.length >= 8

\* bcrypt.hashSync and bcrypt.compare
Hash(password) == <<"bcrypt", password.text>>
Compare(passwordClaim, hashed_password) == hashed_password = Hash(passwordClaim)

\* String.prototype.toLowerCase on the role values of the requests
toLowerCase(role) ==
    CASE role = "STUDENT" -> "student"
      [] role = "Admin" -> "admin"
      [] role = "ADMIN" -> "admin"
      [] OTHER -> role

\* variant: the payload of UserModel.create with the role the body asks for
RegisterPayloadRoleOfBody(body) ==
    [email |-> body.email, password |-> body.password,
     role |-> Get(body, "role", "student")]

\* { ...body, role: USER_ROLE_TYPES.STUDENT }
RegisterPayload(body) ==
    [email |-> body.email, password |-> body.password, role |-> "student"]

\* the rows of the users table with the given email
UsersByEmail(rows, email) == {u \in DOMAIN rows : rows[u].email = email}

\* the row INSERT INTO users stores (is_active and last_login_at by their column
\* defaults)
NewUser(payload) ==
    [email |-> payload.email, hashed_password |-> Hash(payload.password),
     role |-> toLowerCase(payload.role), is_active |-> TRUE, last_login_at |-> Null]

\* variant: INSERT INTO users without its ON CONFLICT (email) DO NOTHING clause and
\* without the unique index behind it
InsertUserUnconstrained(rows, payload) ==
    LET id == Cardinality(DOMAIN rows) + 1
    IN [table |-> [u \in DOMAIN rows \cup {id} |->
                        IF u = id THEN NewUser(payload) ELSE rows[u]],
        rowCount |-> 1, id |-> id]

\* INSERT INTO users ... ON CONFLICT (email) DO NOTHING RETURNING ...
InsertUser(rows, payload) ==
    IF UsersByEmail(rows, payload.email) # {}
    THEN [table |-> rows, rowCount |-> 0, id |-> 0]
    ELSE LET id == Cardinality(DOMAIN rows) + 1
         IN [table |-> [u \in DOMAIN rows \cup {id} |->
                            IF u = id THEN NewUser(payload) ELSE rows[u]],
             rowCount |-> 1, id |-> id]

\* a response of the auth routes: res.status(code).send(...)
AuthResp(op, body, code, res, id, issued) ==
    [NoResp EXCEPT !.op = op, !.body = body, !.code = code, !.res = res, !.id = id,
                   !.issued = issued]

\* the ids of the users of this model
UserIds == {1, 2}

\* bodies of POST /auth/register
RegisterInputs ==
    {[email |-> e, password |-> pw] : e \in Emails, pw \in {StrongPassword, WeakPassword}}
    \cup {[email |-> "a@e.ntu.edu.sg", password |-> StrongPassword, role |-> r] :
            r \in {"instructor", "ADMIN"}}

\* POST /auth/register: the handler takes a client of the pool
RegisterBegin(h, body) ==
    /\ hs[h].pc = "idle"
    /\ Cardinality(DOMAIN users) < Cardinality(UserIds)
    /\ hs' = [hs EXCEPT ![h] = [Idle EXCEPT !.pc = "registering", !.req = body]]
    /\ last' = NoResp
    /\ UNCHANGED <<disabled, users, tokens, decision, audit, sessions, nextId, courses, checkins,
                   now, terminated>>

\* POST /auth/register: UserModel.create and the response
RegisterInsert(h) ==
    /\ hs[h].pc = "registering"
    /\ LET body == hs[h].req
           payload == RegisterPayload(body)
       IN IF ~isStrongPassword(payload.password)
          THEN /\ last' = AuthResp("register", body, 400, "Password too weak", 0, {})
               /\ UNCHANGED users
          ELSE LET q == InsertUser(users, payload)
               IN /\ users' = q.table
                  /\ last' = IF q.rowCount = 0
                             THEN AuthResp("register", body, 400,
                                           "Email already registered", 0, {})
                             ELSE [AuthResp("register", body, 201, "ok", q.id, {})
                                     EXCEPT !.arg = q.table[q.id].role]
    /\ hs' = [hs EXCEPT ![h] = Idle]
    /\ UNCHANGED <<disabled, tokens, decision, audit, sessions, nextId, courses, checkins, now,
                   terminated>>

NextRegister ==
    \E h \in Handlers :
        \/ \E body \in RegisterInputs : RegisterBegin(h, body)
        \/ RegisterInsert(h)

SpecRegister == Init /\ [][NextRegister]_vars

-----------------------------------------------------------------------------
(* services/errorHandler.ts: the global error handler; model/error.ts: AppError *)

\* statusDefaultMessage.json, the default message of a status code
statusDefaultMessage(code) ==
    CASE code = 400 -> "statusDefaultMessage[400]"
      [] code = 401 -> "statusDefaultMessage[401]"
      [] code = 403 -> "statusDefaultMessage[403]"
      [] code = 404 -> "statusDefaultMessage[404]"
      [] code = 429 -> "statusDefaultMessage[429]"
      [] OTHER -> "statusDefaultMessage[500]"

\* the subclasses of AppError and the status code each constructor passes on
AppErrorStatus ==
    [BadRequestError |-> 400, UnauthorizedError |-> 401, ForbiddenError |-> 403,
     NotFoundError |-> 404, RateLimitError |-> 429]

\* new <class>(message); without a message, the default message of the status code
NewAppError(class, message) ==
    [class |-> class, statusCode |-> AppErrorStatus[class],
     message |-> IF message = "" THEN statusDefaultMessage(AppErrorStatus[class])
                 ELSE message]

\* error instanceof AppError
isKnownAppError(error) == error.class \in DOMAIN AppErrorStatus

\* part.replace(/~1/g, '/').replace(/~0/g, '~') on the segments of the requests
Unescape(part) ==
    CASE part = "a~1b" -> "a/b"
      [] part = "m~0n" -> "m~n"
      [] OTHER -> part

\* pointer.split('/').filter(Boolean).map(...): a pointer is the sequence of its
\* separators and segments
Segments(pointer) ==
    LET parts == SelectSeq(pointer, LAMBDA t : t # "/" /\ t # "")
    IN [k \in 1..Len(parts) |-> Unescape(parts[k])]

buildValidationLoc(issue, context) ==
    <<context>> \o Segments(issue.instancePath)
        \o IF issue.keyword = "required" /\ "missingProperty" \in DOMAIN issue.params
           THEN <<issue.params.missingProperty>>
           ELSE <<>>

buildValidationType(issue) ==
    IF issue.keyword = "format" /\ "format" \in DOMAIN issue.params
    THEN "value_error." \o issue.params.format
    ELSE "value_error." \o issue.keyword

\* variant: the handler answering an unknown error with the error's own message
errorHandlerOwnMessage(error) ==
    IF "validation" \in DOMAIN error
    THEN [code |-> 422,
          detail |-> [k \in 1..Len(error.validation) |->
                        LET issue == error.validation[k]
                        IN [loc |-> buildValidationLoc(issue,
                                        Get(error, "validationContext", "body")),
                            msg |-> Get(issue, "message", "Invalid input"),
                            type |-> buildValidationType(issue)]]]
    ELSE [code |-> IF isKnownAppError(error) THEN error.statusCode
                   ELSE IF Get(error, "statusCode", 0) >= 400 THEN error.statusCode
                   ELSE 500,
          detail |-> IF error.message # "" THEN error.message
                     ELSE statusDefaultMessage(500)]

\* the callback of setErrorHandler: the status code and the body of the reply
errorHandler(error) ==
    IF "validation" \in DOMAIN error
    THEN [code |-> 422,
          detail |-> [k \in 1..Len(error.validation) |->
                        LET issue == error.validation[k]
                        IN [loc |-> buildValidationLoc(issue,
                                        Get(error, "validationContext", "body")),
                            msg |-> Get(issue, "message", "Invalid input"),
                            type |-> buildValidationType(issue)]]]
    ELSE LET statusCode == IF isKnownAppError(error) THEN error.statusCode
                           ELSE IF Get(error, "statusCode", 0) >= 400
                           THEN error.statusCode
                           ELSE 500
         IN [code |-> statusCode,
             detail |-> IF isKnownAppError(error)
                        THEN (IF error.message # "" THEN error.message
                              ELSE statusDefaultMessage(statusCode))
                        ELSE statusDefaultMessage(500)]

\* the issues ajv reports
ValidationIssues ==
    {[instancePath |-> <<"/", "email">>, keyword |-> "format",
      message |-> "must match format email", params |-> [format |-> "email"]],
     [instancePath |-> <<>>, keyword |-> "required",
      message |-> "must have required property password",
      params |-> [missingProperty |-> "password"]],
     [instancePath |-> <<"/", "password">>, keyword |-> "minLength",
      params |-> [limit |-> "8"]],
     [instancePath |-> <<"/", "a~1b", "/", "m~0n">>, keyword |-> "type",
      message |-> "must be string", params |-> [type |-> "string"]],
     [instancePath |-> <<"/", "scheduled_start">>, keyword |-> "format",
      message |-> "must match format", params |-> [f \in {} |-> ""]]}

\* the errors that reach the handler: validation failures, AppErrors, others
ValidationErrors ==
    LET lists == {<<i>> : i \in ValidationIssues}
                    \cup {<<i, j>> : i, j \in ValidationIssues}
    IN {[class |-> "FastifyError", statusCode |-> 400, message |-> "body is invalid",
         validation |-> v] : v \in lists}
       \cup {[class |-> "FastifyError", statusCode |-> 400,
              message |-> "request is invalid", validation |-> v,
              validationContext |-> c] :
                v \in lists, c \in {"querystring", "params"}}

AppErrors ==
    {NewAppError(c, "") : c \in DOMAIN AppErrorStatus}
    \cup {NewAppError("BadRequestError", msg) :
            msg \in {"Email already registered", "Password too weak",
                     "Refresh token required"}}
    \cup {NewAppError("ForbiddenError", "Account disabled")}

OtherErrors ==
    {[class |-> c, message |-> msg] :
        c \in {"Error", "TypeError"},
        msg \in {"connect ECONNREFUSED", "relation users does not exist",
                 "No valid fields to update", ""}}
    \cup {[class |-> "FastifyError", statusCode |-> code, message |-> msg] :
            code \in {200, 404, 415, 503},
            msg \in {"Route not found", "Unsupported Media Type", "boom"}}

ErrorInputs == ValidationErrors \cup AppErrors \cup OtherErrors

\* a handler or a hook throws, the error handler replies
Throw(h, error) ==
    /\ hs[h].pc = "idle"
    /\ LET r == errorHandler(error)
       IN last' = [NoResp EXCEPT !.op = "error", !.body = error, !.code = r.code,
                                 !.detail = r.detail]
    /\ UNCHANGED <<disabled, users, tokens, decision, audit, sessions, nextId, courses, checkins,
                   now, hs, terminated>>

NextErrors == \E h \in Sequential, error \in ErrorInputs : Throw(h, error)

SpecErrors == Init /\ [][NextErrors]_vars

-----------------------------------------------------------------------------
(* services/auth.ts (src/unnamed/part_007): the route guard; UserModel.login, *)
(* UserModel.getById and the routes POST /auth/login, POST /auth/refresh     *)

USER_ROLE_HIERARCHY == [student |-> 1, ta |-> 2, instructor |-> 3, admin |-> 4]

\* a role value of the users table that USER_ROLE_TYPES does not list
UnlistedRole == "lecturer"

\* variant: a request without a listed role taken for a student
RoleLevelMissingAsStudent(userRole) ==
    IF userRole \in DOMAIN USER_ROLE_HIERARCHY THEN USER_ROLE_HIERARCHY[userRole] ELSE 1

\* USER_ROLE_HIERARCHY[userRole] || 0
RoleLevel(userRole) ==
    IF userRole \in DOMAIN USER_ROLE_HIERARCHY THEN USER_ROLE_HIERARCHY[userRole] ELSE 0

\* the payloads fastify.jwt.sign is given for the row rows[id]
AccessToken(rows, id) == [sub |-> id, email |-> rows[id].email, role |-> rows[id].role]
RefreshToken(id) == [sub |-> id, type |-> "refresh"]

\* a token as a request presents it: its payload, who signed it, whether its
\* expiry has passed; jwtVerify and jwt.verify accept it when the server signed
\* this payload and it has not expired
Verifies(signed, presented) ==
    /\ presented.sig = "server"
    /\ presented.payload \in signed
    /\ ~presented.expired

\* the argument of authorize: a level, [level |-> n], or a list of roles,
\* [roles |-> S]; authorize() is authorize(1)
DefaultArg == [level |-> 1]

\* variant: the level compared with <=, so that a role passes only above the level
authorizeAboveLevel(arg, verified, payload) ==
    IF ~verified THEN "UnauthorizedError"
    ELSE LET userRole == Get(payload, "role", "")
         IN IF "level" \in DOMAIN arg
            THEN IF RoleLevel(userRole) <= arg.level THEN "ForbiddenError" ELSE ""
            ELSE IF userRole = "" \/ userRole \notin arg.roles
                 THEN "ForbiddenError"
                 ELSE ""

\* the preHandler authorize(arg) returns: the class of the error it throws, "" when
\* it returns normally; a payload without a role has userRole undefined
authorize(arg, verified, payload) ==
    IF ~verified THEN "UnauthorizedError"
    ELSE LET userRole == Get(payload, "role", "")
         IN IF "level" \in DOMAIN arg
            THEN IF RoleLevel(userRole) < arg.level THEN "ForbiddenError" ELSE ""
            ELSE IF userRole = "" \/ userRole \notin arg.roles
                 THEN "ForbiddenError"
                 ELSE ""

\* variant: UserModel.login comparing the password before it looks at is_active
LoginErrorPasswordFirst(rows, email, passwordClaim) ==
    IF UsersByEmail(rows, email) = {} THEN NewAppError("UnauthorizedError", "")
    ELSE LET user == rows[CHOOSE u \in UsersByEmail(rows, email) : TRUE]
         IN IF ~Compare(passwordClaim, user.hashed_password)
            THEN NewAppError("UnauthorizedError", "")
            ELSE IF ~user.is_active
            THEN NewAppError("ForbiddenError", "Account disabled")
            ELSE [class |-> "", statusCode |-> 200, message |-> "ok"]

\* the error UserModel.login throws, class "" when it throws none
LoginError(rows, email, passwordClaim) ==
    IF UsersByEmail(rows, email) = {} THEN NewAppError("UnauthorizedError", "")
    ELSE LET user == rows[CHOOSE u \in UsersByEmail(rows, email) : TRUE]
         IN IF ~user.is_active
            THEN NewAppError("ForbiddenError", "Account disabled")
            ELSE IF ~Compare(passwordClaim, user.hashed_password)
            THEN NewAppError("UnauthorizedError", "")
            ELSE [class |-> "", statusCode |-> 200, message |-> "ok"]

\* variant: the refresh route without the is_active test of UserModel.getById
RefreshErrorAnyUser(rows, signed, presented) ==
    IF presented.sig = "none"
    THEN NewAppError("BadRequestError", "Refresh token required")
    ELSE IF ~Verifies(signed, presented)
    THEN [class |-> "TokenError", statusCode |-> 0, message |-> "jwt.verify"]
    ELSE IF Get(presented.payload, "type", "") # "refresh"
    THEN NewAppError("BadRequestError", "Invalid refresh token")
    ELSE IF presented.payload.sub \notin DOMAIN rows
    THEN NewAppError("NotFoundError", "")
    ELSE [class |-> "", statusCode |-> 200, message |-> "ok"]

\* the error POST /auth/refresh ends with for the cookie presented, class "" when
\* it ends with none (statusCode 0: the error carries none that is known)
RefreshError(rows, signed, presented) ==
    IF presented.sig = "none"
    THEN NewAppError("BadRequestError", "Refresh token required")
    ELSE IF ~Verifies(signed, presented)
    THEN [class |-> "TokenError", statusCode |-> 0, message |-> "jwt.verify"]
    ELSE IF Get(presented.payload, "type", "") # "refresh"
    THEN NewAppError("BadRequestError", "Invalid refresh token")
    ELSE IF presented.payload.sub \notin DOMAIN rows
    THEN NewAppError("NotFoundError", "")
    ELSE IF ~rows[presented.payload.sub].is_active
    THEN NewAppError("ForbiddenError", "Account disabled")
    ELSE [class |-> "", statusCode |-> 200, message |-> "ok"]

\* the roles of the accounts that do not come from POST /auth/register
StaffRoles == {"ta", "instructor", "admin", UnlistedRole}

\* a row of the users table that registration did not write: a member of staff
Provision(email, role) ==
    /\ Cardinality(DOMAIN users) < Cardinality(UserIds)
    /\ users' = InsertUser(users, [email |-> email, password |-> StrongPassword,
                                   role |-> role]).table
    /\ users' # users
    /\ last' = NoResp
    /\ UNCHANGED <<disabled, tokens, decision, audit, sessions, nextId, courses, checkins, now,
                   hs, terminated>>

\* PATCH /admin/users/{user_id}/deactivate and .../activate
SetActive(u, active) ==
    /\ u \in DOMAIN users
    /\ users[u].is_active # active
    /\ users' = [users EXCEPT ![u].is_active = active]
    /\ disabled' = IF active THEN disabled ELSE disabled \cup {u}
    /\ last' = NoResp
    /\ UNCHANGED <<tokens, decision, audit, sessions, nextId, courses, checkins, now,
                   hs, terminated>>

\* POST /auth/login
Login(h, email, passwordClaim) ==
    /\ hs[h].pc = "idle"
    /\ LET body == [email |-> email, password |-> passwordClaim]
           err == LoginError(users, email, passwordClaim)
       IN IF err.class # ""
          THEN /\ last' = AuthResp("login", body, err.statusCode, err.message, 0, {})
               /\ UNCHANGED <<users, tokens>>
          ELSE LET id == CHOOSE u \in UsersByEmail(users, email) : TRUE
                   pair == {AccessToken(users, id), RefreshToken(id)}
               IN /\ users' = [users EXCEPT ![id].last_login_at = now]
                  /\ tokens' = tokens \cup pair
                  /\ last' = AuthResp("login", body, 200, "ok", id, pair)
    /\ UNCHANGED <<disabled, decision, audit, sessions, nextId, courses, checkins, now, hs,
                   terminated>>

\* a request without the cookie
NoCookie == [payload |-> [f \in {} |-> 0], sig |-> "none", expired |-> FALSE]

\* the cookies a request can carry: none, the payloads the server signs for the
\* users, fresh or expired, and the same payloads signed with another key
Presentable ==
    {NoCookie} \cup
    {[payload |-> t, sig |-> c[1], expired |-> c[2]] :
        t \in {AccessToken(users, u) : u \in DOMAIN users}
                \cup {RefreshToken(u) : u \in DOMAIN users},
        c \in {<<"server", FALSE>>, <<"server", TRUE>>, <<"other", FALSE>>}}

\* POST /auth/refresh with a refresh_token cookie
Refresh(h, presented) ==
    /\ hs[h].pc = "idle"
    /\ LET err == RefreshError(users, tokens, presented)
       IN IF err.class # ""
          THEN \* err?.statusCode || 500: what jwt.verify throws carries a status
               \* code of 401 or none
               /\ \E code \in IF err.statusCode = 0 THEN {401, 500}
                                ELSE {err.statusCode} :
                    last' = AuthResp("refresh", presented, code, err.message, 0, {})
               /\ UNCHANGED tokens
          ELSE LET id == presented.payload.sub
                   pair == {AccessToken(users, id), RefreshToken(id)}
               IN /\ tokens' = tokens \cup pair
                  /\ last' = AuthResp("refresh", presented, 200, "ok", id, pair)
    /\ UNCHANGED <<disabled, users, decision, audit, sessions, nextId, courses, checkins, now,
                   hs, terminated>>

\* the arguments the routes give to authorize
GuardArgs ==
    {[level |-> n] : n \in 1..5}
    \cup {[roles |-> {"student", "ta"}], [roles |-> {"instructor", "admin"}],
          [roles |-> {"admin"}]}

\* a request to a route behind preHandler: [authorize(arg)]: the guard throws and
\* the error handler replies, or the route handler runs
Guarded(h, arg, presented) ==
    /\ hs[h].pc = "idle"
    /\ LET class == authorize(arg, Verifies(tokens, presented), presented.payload)
           body == [arg |-> arg, token |-> presented]
       IN IF class # ""
          THEN LET r == errorHandler(NewAppError(class, ""))
               IN last' = [NoResp EXCEPT !.op = "guard", !.body = body,
                                         !.code = r.code, !.detail = r.detail]
          ELSE last' = [NoResp EXCEPT !.op = "guard", !.body = body, !.code = 200,
                                      !.ran = TRUE]
    /\ UNCHANGED <<disabled, users, tokens, decision, audit, sessions, nextId, courses, checkins,
                   now, hs, terminated>>

\* bodies of POST /auth/register of the account a@e.ntu.edu.sg
AuthRegisterInputs ==
    {[email |-> "a@e.ntu.edu.sg", password |-> StrongPassword],
     [email |-> "a@e.ntu.edu.sg", password |-> StrongPassword, role |-> "ADMIN"]}

\* registration, login, refresh and the (de)activation of accounts
NextAuth ==
    \/ \E h \in Sequential :
        \/ \E body \in AuthRegisterInputs : RegisterBegin(h, body)
        \/ RegisterInsert(h)
        \/ \E email \in Emails, pw \in {StrongPassword, OtherPassword} :
                Login(h, email, pw)
        \/ \E presented \in Presentable : Refresh(h, presented)
    \/ \E role \in StaffRoles : Provision("b@e.ntu.edu.sg", role)
    \/ \E u \in UserIds, active \in BOOLEAN : SetActive(u, active)

SpecAuth == Init /\ [][NextAuth]_vars

\* registration and login, and the requests to the guarded routes
NextGuard ==
    \/ \E h \in Sequential :
        \/ \E body \in AuthRegisterInputs : RegisterBegin(h, body)
        \/ RegisterInsert(h)
        \/ \E email \in Emails : Login(h, email, StrongPassword)
        \/ \E arg \in GuardArgs, presented \in Presentable : Guarded(h, arg, presented)
    \/ \E role \in StaffRoles : Provision("b@e.ntu.edu.sg", role)

SpecGuard == Init /\ [][NextGuard]_vars

-----------------------------------------------------------------------------
(* Properties of the session lifecycle *)

\* C1 as the specification states it: a successful Session.updateStatus follows one
\* of the four edges scheduled->active, active->closed, scheduled->cancelled,
\* active->cancelled, and every other transition request fails
C1_OnlyLegalEdges ==
    (last.op = "updateStatus" /\ last.res = "ok")
        => <<last.pre, last.arg>> \in LegalEdges

\* C1 as the code has it: Session.updateStatus on an existing session succeeds for
\* each of the four statuses whatever the stored status is, and stores the target;
\* it fails only for a value outside the four statuses or for an unknown id, and
\* then the stored status is as it was
C1_UpdateStatusUnconditional ==
    last.op = "updateStatus" =>
        /\ (last.arg \in VALID_SESSION_STATUSES /\ last.pre # "none")
              => (last.res = "ok" /\ StatusOf(sessions, last.id) = last.arg)
        /\ (last.arg \in VALID_SESSION_STATUSES /\ last.pre = "none")
              => (last.res = "not found" /\ last.id \notin DOMAIN sessions)
        /\ last.arg \notin VALID_SESSION_STATUSES
              => (last.res = "Invalid status" /\ StatusOf(sessions, last.id) = last.pre)

\* a closed session has just been set back to active
C1_Witness ==
    /\ last.op = "updateStatus"
    /\ last.res = "ok"
    /\ last.pre = "closed"
    /\ last.arg = "active"
    /\ StatusOf(sessions, last.id) = "active"

\* C2 as the specification states it: a session that is closed or cancelled keeps
\* that status in every later step
C2_TerminalForever ==
    [][\A id \in SessionIds :
          (id \in DOMAIN sessions /\ id \in DOMAIN sessions'
              /\ sessions[id].status \in Terminal)
            => sessions'[id].status = sessions[id].status]_vars

\* C2 as the code has it: only a successful Session.updateStatus or Session.update
\* on that session changes the status of a closed or cancelled session; Session.delete
\* and Course.delete leave it as it is
C2_TerminalUnlessRewritten ==
    [][\A id \in SessionIds :
          (id \in DOMAIN sessions /\ id \in DOMAIN sessions'
              /\ sessions[id].status \in Terminal
              /\ sessions'[id].status # sessions[id].status)
            => /\ last'.op \in {"updateStatus", "update"}
               /\ last'.id = id
               /\ last'.res = "ok"
               /\ last'.arg = sessions'[id].status]_vars

\* a session that was closed or cancelled before is scheduled or active again, put
\* there by PATCH /sessions/{id}
C2_Witness ==
    /\ last.op = "update"
    /\ last.res = "ok"
    /\ last.pre \in Terminal
    /\ last.id \in terminated
    /\ StatusOf(sessions, last.id) \in {"scheduled", "active"}

\* C3 as the specification states it: a transition is a compare-and-swap on the
\* status the requester observed, so a transition that succeeds found the stored
\* status equal to the observed one
C3_CompareAndSwap ==
    (last.op = "updateStatus" /\ last.res = "ok" /\ last.obs # "none")
        => last.pre = last.obs

\* C3 as the code has it: the write never reads the stored status; a transition
\* requested after observing a status succeeds and stores its target even when
\* another request has changed the status since (the last write wins)
C3_LastWriteWins ==
    (last.op = "updateStatus" /\ last.obs # "none" /\ last.pre # "none")
        => (last.res = "ok" /\ StatusOf(sessions, last.id) = last.arg)

\* two requests observed the session active and both set it to closed: the second
\* one succeeded on a session the first had already closed
C3_Witness ==
    /\ last.op = "updateStatus"
    /\ last.res = "ok"
    /\ last.obs = "active"
    /\ last.pre = "closed"
    /\ last.arg = "closed"

\* C4: a Session.delete that succeeds removes a session whose stored status is
\* scheduled at the moment of the DELETE (or nothing, the row being gone already)
C4_DeleteOnlyScheduled ==
    (last.op = "delete" /\ last.res = "ok") => last.pre \in {"scheduled", "none"}

-----------------------------------------------------------------------------
(* Properties of the check-in pipeline *)

C6_CriticalRejects ==
    LET s == decision.session
        sig == decision.signals
        livenessFailed == /\ s.require_liveness_check
                          /\ "liveness" \in DOMAIN sig
                          /\ sig["liveness"] < LivenessThreshold
        farOut == /\ s.geofence_radius_meters # Null
                  /\ decision.distance > 2 * s.geofence_radius_meters
    IN (last.op = "decide" /\ (livenessFailed \/ farOut))
          => decision.status = "rejected"

\* every signal at 0.90 (risk 0.10, under the threshold 0.50) and the point at 2.5
\* times the radius: rejected
C6_Witness ==
    /\ last.op = "decide"
    /\ decision.status = "rejected"
    /\ decision.distance = 250
    /\ decision.session.geofence_radius_meters = 100
    /\ decision.session.risk_threshold = 50
    /\ RiskScore(decision.signals) = 1000
    /\ ~LivenessFailed(decision.session, decision.signals)

C8_NeverOpenAgain ==
    \A id \in terminated :
        /\ id \notin findActive(sessions, now)
        /\ last.op = "findActive" => id \notin last.ids
        /\ ~(last.op = "checkin" /\ last.id = id /\ last.res = "created")
        /\ \A h \in Handlers : ~(hs[h].pc = "checkin_admitted" /\ hs[h].id = id)

\* C8 as the code has it: while the stored status is closed or cancelled the
\* session is not reported as open and no check-in for it is admitted, whatever
\* the time is relative to the check-in window
C8_ClosedWhileClosed ==
    /\ \A id \in DOMAIN sessions :
          sessions[id].status \in Terminal => id \notin findActive(sessions, now)
    /\ last.op = "findActive"
          => \A id \in last.ids : StatusOf(sessions, id) \notin Terminal
    /\ (last.op = "checkin" /\ last.arg = "gate" /\ last.pre \in Terminal)
          => last.res = "SessionNotOpen"
    /\ \A h \in Handlers : hs[h].pc = "checkin_admitted" => hs[h].obs = "active"

\* a check-in turned down on a closed session inside its check-in window
C8_Witness ==
    /\ last.op = "checkin"
    /\ last.res = "SessionNotOpen"
    /\ last.pre = "closed"
    /\ last.id \in DOMAIN sessions
    /\ now >= sessions[last.id].checkin_opens_at
    /\ now <= sessions[last.id].checkin_closes_at

\* C9: GET /sessions/active reports exactly the sessions whose stored status is
\* active and whose check-in window holds the current time, both ends included,
\* read from the stored rows at the time of the request
C9_OpenIffActiveInWindow ==
    last.op = "findActive" =>
        last.ids = {id \in DOMAIN sessions :
                        /\ sessions[id].status = "active"
                        /\ sessions[id].checkin_opens_at <= now
                        /\ now <= sessions[id].checkin_closes_at}

\* a session reported open at the very instant its window closes
C9_Witness ==
    /\ last.op = "findActive"
    /\ \E id \in last.ids : now = sessions[id].checkin_closes_at

\* C10: a check-in that fails with SessionNotOpen, AlreadyCheckedIn or
\* VerificationServiceUnavailable writes no CheckIn row and yields no outcome, and
\* no stored CheckIn is a partial (pending) one
C10_FailureLeavesNoRow ==
    /\ (last.op = "checkin" /\ last.res \in CheckinFailures)
          => /\ RowsOf(checkins, last.id, last.student) = last.n0
             /\ last.out = "none"
    /\ \A r \in BagToSet(checkins) : r.status \in {"approved", "flagged", "rejected"}

\* the gateway was unavailable for an admitted check-in: no row for the pair, so a
\* retry meets no constraint
C10_Witness ==
    /\ last.op = "checkin"
    /\ last.res = "VerificationServiceUnavailable"
    /\ last.n0 = 0
    /\ RowsOf(checkins, last.id, last.student) = 0

-----------------------------------------------------------------------------
(* Properties of session creation and editing *)

\* C13: Session.create turns the request down and inserts no row whenever
\* scheduled_start is not strictly after the current time, or scheduled_end is not
\* after scheduled_start, or the closing bound in effect (given, or 30 minutes
\* after the start) is not after the opening bound in effect (given, or 15 minutes
\* before the start)
C13_CreateRejects ==
    [][last'.op = "create" =>
          LET b == last'.body
              opens == IF "checkin_opens_at" \in DOMAIN b THEN b.checkin_opens_at
                       ELSE b.scheduled_start - OpensBefore
              closes == IF "checkin_closes_at" \in DOMAIN b THEN b.checkin_closes_at
                        ELSE b.scheduled_start + ClosesAfter
          IN (b.scheduled_start <= now \/ b.scheduled_end <= b.scheduled_start
                  \/ closes <= opens)
                => /\ last'.res # "ok"
                   /\ sessions' = sessions
                   /\ nextId' = nextId]_vars

\* a request that gives only checkin_opens_at, later than the default closing
\* bound, was turned down and no row is stored
C13_Witness ==
    /\ last.op = "create"
    /\ last.res = "checkin_closes_at must be after checkin_opens_at"
    /\ "checkin_opens_at" \in DOMAIN last.body
    /\ "checkin_closes_at" \notin DOMAIN last.body
    /\ DOMAIN sessions = {}

\* C14: every stored session has checkin_opens_at < checkin_closes_at and
\* scheduled_start < scheduled_end
C14_DatesOrdered ==
    \A id \in DOMAIN sessions :
        /\ sessions[id].checkin_opens_at < sessions[id].checkin_closes_at
        /\ sessions[id].scheduled_start < sessions[id].scheduled_end

\* C15 as the specification states it: an edit of a session that is not scheduled
\* is not applied
C15_EditsOnlyWhileScheduled ==
    [][(last'.op = "update" /\ last'.pre \in {"active", "closed", "cancelled"})
          => sessions' = sessions]_vars

\* C15 as the code has it: Session.update applies the updatable fields of the body
\* to the session whatever its status is, and changes nothing else; it fails only
\* for an unknown id or a body without an updatable field
C15_EditsInAnyStatus ==
    [][last'.op = "update" =>
          LET id == last'.id
              b == last'.body
              given == DOMAIN b \cap UPDATABLE_FIELDS
          IN /\ (id \in DOMAIN sessions /\ given # {})
                  => /\ last'.res = "ok"
                     /\ DOMAIN sessions' = DOMAIN sessions
                     /\ \A f \in DOMAIN sessions[id] :
                            sessions'[id][f] = IF f \in given THEN b[f]
                                               ELSE sessions[id][f]
                     /\ \A i \in DOMAIN sessions \ {id} : sessions'[i] = sessions[i]
             /\ (id \notin DOMAIN sessions \/ given = {})
                  => (last'.res # "ok" /\ sessions' = sessions)]_vars

\* checkin_closes_at of a closed session has just been moved
C15_Witness ==
    /\ last.op = "update"
    /\ last.res = "ok"
    /\ last.pre = "closed"
    /\ last.body = [checkin_closes_at |-> 5]
    /\ sessions[last.id].status = "closed"
    /\ sessions[last.id].checkin_closes_at = 5

\* C16: Session.create stores checkin_opens_at as given, or scheduled_start - 15
\* minutes when it is left out, and checkin_closes_at as given, or scheduled_start
\* + 30 minutes when it is left out, each bound on its own
C16_DefaultWindow ==
    (last.op = "create" /\ last.res = "ok") =>
        LET b == last.body
            s == sessions[last.id]
        IN /\ s.checkin_opens_at = IF "checkin_opens_at" \in DOMAIN b
                                   THEN b.checkin_opens_at
                                   ELSE b.scheduled_start - OpensBefore
           /\ s.checkin_closes_at = IF "checkin_closes_at" \in DOMAIN b
                                    THEN b.checkin_closes_at
                                    ELSE b.scheduled_start + ClosesAfter

\* only the opening bound was given: it is stored as given, the closing bound is
\* the start plus 30 minutes
C16_Witness ==
    /\ last.op = "create"
    /\ last.res = "ok"
    /\ "checkin_opens_at" \in DOMAIN last.body
    /\ "checkin_closes_at" \notin DOMAIN last.body
    /\ sessions[last.id].checkin_opens_at = 0
    /\ sessions[last.id].checkin_closes_at = 4

\* C17: every risk_threshold a session stores lies in [0,1] (a session that stores
\* none takes the default 0.50)
C17_ThresholdInRange ==
    \A id \in DOMAIN sessions :
        sessions[id].risk_threshold # Null
            => (sessions[id].risk_threshold >= 0 /\ sessions[id].risk_threshold <= 100)

-----------------------------------------------------------------------------
(* Properties of the appeal and review workflow *)

\* C11: an appeal succeeds only on a CheckIn that is rejected or flagged and was
\* never appealed, and moves it to appealed; an appeal of an approved CheckIn
\* fails; an appeal of a CheckIn appealed before fails with AlreadyAppealed; a failed
\* appeal changes nothing, and no other request moves a CheckIn to appealed
C11_AppealOnce ==
    [][/\ (last'.op = "appeal" /\ HasCheckin(checkins, last'.id, last'.student)) =>
            LET r == CheckinOf(checkins, last'.id, last'.student)
                w == CheckinOf(checkins', last'.id, last'.student)
            IN /\ last'.res = "ok" =>
                    /\ r.status \in {"rejected", "flagged"}
                    /\ r.appealed_at = Null
                    /\ w.status = "appealed"
                    /\ w.appealed_at = now
               /\ last'.res # "ok" => checkins' = checkins
               /\ r.status = "approved" => last'.res # "ok"
               /\ r.appealed_at # Null => last'.res = "AlreadyAppealed"
       /\ \A r \in BagToSet(checkins') :
            (r.status = "appealed" /\ r \notin BagToSet(checkins))
                => (last'.op = "appeal" /\ last'.res = "ok")]_vars

\* an appealed CheckIn was reviewed and rejected, and the student's second appeal
\* has just failed with AlreadyAppealed
C11_Witness ==
    /\ last.op = "appeal"
    /\ last.res = "AlreadyAppealed"
    /\ last.pre = "rejected"
    /\ CheckinOf(checkins, last.id, last.student).reviewed_at # Null

\* C12: a review succeeds only on a flagged or appealed CheckIn, stores the
\* outcome approved or rejected with reviewed_by, reviewed_at and review_notes,
\* and is terminal: a reviewed CheckIn is changed by no later request, no appeal
\* and no review of it succeeds, whatever the outcome was
C12_ReviewTerminal ==
    [][/\ (last'.op = "review" /\ last'.res = "ok") =>
            LET r == CheckinOf(checkins, last'.id, last'.student)
                w == CheckinOf(checkins', last'.id, last'.student)
            IN /\ r.status \in {"flagged", "appealed"}
               /\ w.status = last'.out
               /\ w.status \in {"approved", "rejected"}
               /\ w.reviewed_by \in Reviewers
               /\ w.reviewed_at = now
               /\ w.review_notes \in ReviewNotes
               /\ w = [r EXCEPT !.status = w.status, !.reviewed_by = w.reviewed_by,
                                !.reviewed_at = w.reviewed_at,
                                !.review_notes = w.review_notes]
       /\ \A r \in BagToSet(checkins) :
            r.reviewed_at # Null =>
                /\ r \in BagToSet(checkins')
                /\ (last'.op \in {"appeal", "review"} /\ last'.id = r.session_id
                        /\ last'.student = r.student_id)
                     => last'.res # "ok"]_vars

\* a flagged CheckIn, never appealed, was reviewed and rejected; the appeal that
\* followed has just been turned down
C12_Witness ==
    /\ last.op = "appeal"
    /\ last.res = "InvalidTransition"
    /\ last.pre = "rejected"
    /\ CheckinOf(checkins, last.id, last.student).reviewed_at # Null
    /\ CheckinOf(checkins, last.id, last.student).appealed_at = Null

-----------------------------------------------------------------------------
(* Properties of the Risk Signal Combiner and the Geofence Evaluator *)

\* C18: the weights are liveness 0.25, face_match 0.25, device 0.20, network 0.15,
\* geolocation 0.15 and sum to 1; the risk score is the sum over the five signals
\* of weight x (1 - score) with a missing signal scored 0.5; for scores in [0,1]
\* it lies in [0,1]; all five signals at 0.9 give 0.10
C18_RiskScoreWeightedSum ==
    last.op = "decide" =>
        LET sig == decision.signals
            sc(k) == IF k \in DOMAIN sig THEN sig[k] ELSE 50
            total == 25 * (100 - sc("liveness")) + 25 * (100 - sc("face_match"))
                     + 20 * (100 - sc("device")) + 15 * (100 - sc("network"))
                     + 15 * (100 - sc("geolocation"))
        IN /\ WEIGHTS = [liveness |-> 25, face_match |-> 25, device |-> 20,
                         network |-> 15, geolocation |-> 15]
           /\ WEIGHTS.liveness + WEIGHTS.face_match + WEIGHTS.device
                + WEIGHTS.network + WEIGHTS.geolocation = 100
           /\ decision.risk_score = total
           /\ decision.risk_score >= 0
           /\ decision.risk_score <= 10000
           /\ (\A k \in DOMAIN WEIGHTS : k \in DOMAIN sig /\ sig[k] = 90)
                => decision.risk_score = 1000

\* liveness, face match and geolocation missing, device and network at 1.0: the
\* three missing signals count 0.5 each, risk 0.325
C18_Witness ==
    /\ last.op = "decide"
    /\ DOMAIN decision.signals = {"device", "network"}
    /\ decision.signals["device"] = 100
    /\ decision.signals["network"] = 100
    /\ decision.risk_score = 3250

\* C19: for every distance d and radius r the point is within the geofence iff
\* d <= r and severely out of bounds iff d > 2 x r; never both; a point with
\* r < d <= 2r is neither; d = 250 with r = 100 is severely out of bounds
C19_GeofenceVerdicts ==
    LET d == decision.distance
        r == decision.session.geofence_radius_meters
    IN (last.op = "decide" /\ r # Null) =>
          /\ decision.within_geofence <=> d <= r
          /\ decision.severely_out_of_bounds <=> d > 2 * r
          /\ ~(decision.within_geofence /\ decision.severely_out_of_bounds)
          /\ (r < d /\ d <= 2 * r)
                => (~decision.within_geofence /\ ~decision.severely_out_of_bounds)
          /\ (d = 250 /\ r = 100) => decision.severely_out_of_bounds

\* a point at exactly twice the radius: outside the geofence, not severely so
C19_Witness ==
    /\ last.op = "decide"
    /\ decision.distance = 200
    /\ decision.session.geofence_radius_meters = 100
    /\ ~decision.within_geofence
    /\ ~decision.severely_out_of_bounds

-----------------------------------------------------------------------------
(* Properties of the audit log *)

\* C20: every session lifecycle transition, every check-in decision and every
\* appeal or review that succeeds appends exactly one audit entry, no other step
\* appends any, and the log of every state extends the log of the state before
C20_AuditEveryAction ==
    [][LET audited == \/ last'.op = "updateStatus" /\ last'.res = "ok"
                      \/ last'.op = "checkin" /\ last'.res = "created"
                      \/ last'.op \in {"appeal", "review"} /\ last'.res = "ok"
       IN /\ audit \sqsubseteq audit'
          /\ BagCardinality(audit') =
                BagCardinality(audit) + IF audited THEN 1 ELSE 0]_vars

-----------------------------------------------------------------------------
(* What Session.create stores, what Session.update and Course.delete change *)

\* C25: Session.create stores every new session with status scheduled, whatever
\* the request body carries: the row of an id the table did not hold before is
\* scheduled, and a body with a status of its own is stored as scheduled too
C25_CreatedScheduled ==
    [][/\ \A i \in DOMAIN sessions' \ DOMAIN sessions :
            sessions'[i].status = "scheduled"
       /\ (last'.op = "create" /\ last'.res = "ok")
            => /\ last'.id \notin DOMAIN sessions
               /\ last'.id \in DOMAIN sessions'
               /\ sessions'[last'.id].status = "scheduled"]_vars

\* a session created from a body that asks for status active
C25_Witness ==
    /\ last.op = "create"
    /\ last.res = "ok"
    /\ "status" \in DOMAIN last.body
    /\ last.body.status = "active"
    /\ sessions[last.id].status = "scheduled"

\* C26: Course.delete of an existing course sets its is_active to FALSE and leaves
\* the other courses and the sessions as they are with its first statement; its
\* second statement moves the scheduled and active sessions of that course to
\* cancelled and changes nothing else; on an id that is no course it returns
\* false and changes no course and no session
C26_CourseDeleteCascade ==
    [][/\ \A h \in Handlers :
            (hs[h].pc = "idle" /\ hs'[h].pc = "course_marked")
                => LET cid == hs'[h].id
                   IN /\ cid \in DOMAIN courses
                      /\ DOMAIN courses' = DOMAIN courses
                      /\ courses'[cid].is_active = FALSE
                      /\ \A c \in DOMAIN courses \ {cid} : courses'[c] = courses[c]
                      /\ sessions' = sessions
       /\ (last'.op = "courseDelete" /\ last'.res = "true")
            => LET cid == last'.id
               IN /\ courses' = courses
                  /\ courses[cid].is_active = FALSE
                  /\ DOMAIN sessions' = DOMAIN sessions
                  /\ \A i \in DOMAIN sessions :
                        IF /\ sessions[i].course_id = cid
                           /\ sessions[i].status \in {"scheduled", "active"}
                        THEN /\ sessions'[i].status = "cancelled"
                             /\ sessions'[i] =
                                    [sessions[i] EXCEPT !.status = "cancelled"]
                        ELSE sessions'[i] = sessions[i]
       /\ (last'.op = "courseDelete" /\ last'.res = "false")
            => /\ last'.id \notin DOMAIN courses
               /\ courses' = courses
               /\ sessions' = sessions]_vars

\* a course was deleted: its session is cancelled, the active session of the
\* other course is still active
C26_Witness ==
    /\ last.op = "courseDelete"
    /\ last.res = "true"
    /\ \E i, j \in DOMAIN sessions :
            /\ sessions[i].course_id = last.id
            /\ sessions[i].status = "cancelled"
            /\ sessions[j].course_id # last.id
            /\ sessions[j].status = "active"

\* C27: Session.update changes, of the targeted session, only the fields that the
\* request body carries and the allowlist names, and sets each of them to the
\* value of the body; course_id, instructor_id, session_type and created_at never
\* change, no other session changes and no session appears or disappears; a body
\* without a field of the allowlist fails with 'No valid fields to update' and
\* changes nothing
C27_UpdateOnlyAllowlisted ==
    [][last'.op = "update"
        => LET id == last'.id
               body == last'.body
               allowed == DOMAIN body \cap
                            {"name", "description", "status", "scheduled_start",
                             "scheduled_end", "checkin_opens_at", "checkin_closes_at",
                             "venue_name", "venue_latitude", "venue_longitude",
                             "geofence_radius_meters", "require_liveness_check",
                             "require_face_match", "risk_threshold"}
           IN /\ DOMAIN sessions' = DOMAIN sessions
              /\ \A i \in DOMAIN sessions \ {id} : sessions'[i] = sessions[i]
              /\ id \in DOMAIN sessions
                    => /\ \A f \in DOMAIN sessions[id] :
                            IF f \in allowed
                            THEN sessions'[id][f] = body[f]
                            ELSE sessions'[id][f] = sessions[id][f]
                       /\ \A f \in {"course_id", "instructor_id", "session_type",
                                     "created_at"} :
                            sessions'[id][f] = sessions[id][f]
              /\ allowed = {}
                    => /\ last'.res = "No valid fields to update"
                       /\ sessions' = sessions
              /\ (allowed # {} /\ id \in DOMAIN sessions) => last'.res = "ok"]_vars

\* an update whose body carried course_id, instructor_id, session_type, created_at
\* and risk_threshold: only risk_threshold was written
C27_Witness ==
    /\ last.op = "update"
    /\ last.res = "ok"
    /\ {"course_id", "instructor_id", "session_type", "created_at", "risk_threshold"}
            \subseteq DOMAIN last.body
    /\ sessions[last.id].risk_threshold = last.body.risk_threshold
    /\ sessions[last.id].course_id # last.body.course_id
    /\ sessions[last.id].instructor_id # last.body.instructor_id
    /\ sessions[last.id].session_type # last.body.session_type
    /\ sessions[last.id].created_at # last.body.created_at
    /\ Cardinality(DOMAIN sessions) = 2

-----------------------------------------------------------------------------
(* Registration *)

-----------------------------------------------------------------------------
(* The global error handler *)

-----------------------------------------------------------------------------
(* Login, refresh and the route guard *)

\* C22: a login with an unknown email is answered 401; with the email of a disabled
\* account 403 'Account disabled'; with the email of an active account and a
\* password that does not match 401; tokens are issued only for an account that
\* exists, is active and whose password matches; a login that fails leaves the
\* users table, last_login_at included, and the signed tokens as they were
C22_LoginOutcomes ==
    [][last'.op = "login"
        => LET email == last'.body.email
               claim == last'.body.password
               found == {u \in DOMAIN users : users[u].email = email}
               good == {u \in found :
                            /\ users[u].is_active
                            /\ users[u].hashed_password = <<"bcrypt", claim.text>>}
           IN /\ found = {} => last'.code = 401
              /\ (\E u \in found : ~users[u].is_active)
                    => (last'.code = 403 /\ last'.res = "Account disabled")
              /\ (found # {} /\ good = {} /\ \A u \in found : users[u].is_active)
                    => last'.code = 401
              /\ good # {} => last'.code = 200
              /\ last'.issued # {} => (last'.code = 200 /\ last'.id \in good)
              /\ IF last'.code = 200
                 THEN /\ last'.issued # {}
                      /\ users' = [users EXCEPT ![last'.id].last_login_at = now]
                 ELSE /\ users' = users
                      /\ tokens' = tokens
                      /\ last'.issued = {}]_vars

\* a login with the right password on a disabled account: 403, nothing issued
C22_Witness ==
    /\ last.op = "login"
    /\ last.code = 403
    /\ last.issued = {}
    /\ \E u \in DOMAIN users :
            /\ users[u].email = last.body.email
            /\ ~users[u].is_active
            /\ Compare(last.body.password, users[u].hashed_password)
            /\ users[u].last_login_at = Null

\* C23: behind authorize(n) the route handler runs iff the token verifies and the
\* level of its role (student 1, ta 2, instructor 3, admin 4, none or unlisted 0)
\* is at least n; behind authorize(list) iff the token verifies and its role is in
\* the list; a token that does not verify is answered 401 and a role that does not
\* pass 403, the handler not having run
C23_GuardAdmits ==
    last.op = "guard"
        => LET arg == last.body.arg
               token == last.body.token
               verified == /\ token.sig = "server"
                           /\ token.payload \in tokens
                           /\ ~token.expired
               role == IF "role" \in DOMAIN token.payload THEN token.payload.role
                       ELSE ""
               level == CASE role = "student" -> 1
                          [] role = "ta" -> 2
                          [] role = "instructor" -> 3
                          [] role = "admin" -> 4
                          [] OTHER -> 0
               passes == IF "level" \in DOMAIN arg THEN level >= arg.level
                         ELSE role \in arg.roles
           IN /\ last.ran <=> (verified /\ passes)
              /\ ~verified => (last.code = 401 /\ ~last.ran)
              /\ (verified /\ ~passes) => (last.code = 403 /\ ~last.ran)
              /\ last.ran => last.code = 200

\* a ta's token at the level of instructors: it verifies and is answered 403
C23_Witness ==
    /\ last.op = "guard"
    /\ last.body.arg = [level |-> 3]
    /\ last.body.token.sig = "server"
    /\ ~last.body.token.expired
    /\ last.body.token.payload \in tokens
    /\ "role" \in DOMAIN last.body.token.payload
    /\ last.body.token.payload.role = "ta"
    /\ last.code = 403
    /\ ~last.ran

C29_NoRefreshOnceDeactivated ==
    (last.op = "refresh" /\ last.code = 200)
        => /\ last.body.sig = "server"
           /\ ~last.body.expired
           /\ last.body.payload \in tokens
           /\ "type" \in DOMAIN last.body.payload
           /\ last.body.payload.type = "refresh"
           /\ users[last.id].is_active
           /\ last.id \notin disabled

\* C29: a refresh issues a new pair only when the token presented verifies, has
\* type refresh and names a user that exists and is active at that time; an
\* access token presented as the refresh token is answered 400 and a refresh for
\* a user that is deactivated at that time 403 'Account disabled', nothing issued
C29_RefreshOnlyWhileActive ==
    [][last'.op = "refresh"
        => LET token == last'.body
               verified == /\ token.sig = "server"
                           /\ token.payload \in tokens
                           /\ ~token.expired
               isRefresh == /\ "type" \in DOMAIN token.payload
                            /\ token.payload.type = "refresh"
               active == /\ token.payload.sub \in DOMAIN users
                         /\ users[token.payload.sub].is_active
           IN /\ (last'.code = 200)
                    <=> (verified /\ isRefresh /\ active)
              /\ IF last'.code = 200
                 THEN /\ last'.id = token.payload.sub
                      /\ last'.issued =
                            {[sub |-> last'.id, email |-> users[last'.id].email,
                              role |-> users[last'.id].role],
                             [sub |-> last'.id, type |-> "refresh"]}
                      /\ tokens' = tokens \cup last'.issued
                 ELSE /\ last'.issued = {}
                      /\ tokens' = tokens
              /\ (verified /\ ~isRefresh) => last'.code = 400
              /\ (verified /\ isRefresh /\ ~active)
                    => (last'.code = 403 /\ last'.res = "Account disabled")
              /\ users' = users]_vars

\* the refresh token of a deactivated user, still valid, was answered 403
C29_Witness ==
    /\ last.op = "refresh"
    /\ last.code = 403
    /\ last.body.sig = "server"
    /\ ~last.body.expired
    /\ last.body.payload \in tokens
    /\ ~users[last.body.payload.sub].is_active

====
